---- MODULE Spec2Model ----
(***************************************************************************)
(* A model of the asynchronous Hacker News client (src/src/nonblocking.rs). *)
(* One client call is in progress at a time.  A call creates one future    *)
(* per input position; join_all polls them in input order, each future     *)
(* performs at most one round trip, the network answers the round trips in *)
(* any order, and when every future has settled the outputs are reduced in *)
(* input order to the single Result the caller receives.                   *)
(***************************************************************************)
EXTENDS Integers, Sequences, FiniteSets, TLC

\* Longest of the arbitrary input sequences handed to a batch operation.
MaxLen == 2

(***************************************************************************)
(* Option and Result values.                                               *)
(***************************************************************************)
None == [some |-> FALSE]
Some(x) == [some |-> TRUE, v |-> x]
Ok(x) == [ok |-> TRUE, val |-> x]
Err(e) == [ok |-> FALSE, err |-> e]

\* The value of `result` while the caller is still awaiting the call.
NoResult == [pending |-> TRUE]

(***************************************************************************)
(* Resources and the remote store the requests are answered from.          *)
(***************************************************************************)
ItemIds == {3, 5, 9}
\* The ids arbitrary batch inputs are built from: one absent, one present.
BatchIds == {3, 5}
\* The ranking the store serves under topstories.json.
TopStories == <<5, 3, 9>>
Usernames == {"pg", "ghost"}

\* A batch that repeats an id around an absent one.
RepeatedIds == <<5, 3, 5>>

Item5 == [id |-> 5, by |-> Some("pg")]
Item9 == [id |-> 9, by |-> None]
Item7 == [id |-> 7, by |-> Some("ghost")]
UserPg == [name |-> "pg"]

\* Items a caller may hand to the author operations.
Items == {Item5, Item9, Item7}
OptItems == {None} \cup {Some(it) : it \in Items}

\* Entries for try_get_authors: an item without an author, an item with one,
\* and an absent entry.
AuthorEntries == <<Some(Item9), Some(Item5), None>>

\* Item::author(): the optional author username of an item.
author(item) == item.by

API_BASE_URL == "https://hacker-news.firebaseio.com/v0"

ItemUrl(id) == API_BASE_URL \o "/item/" \o ToString(id) \o ".json"
UserUrl(username) == API_BASE_URL \o "/user/" \o username \o ".json"
TopStoriesUrl == API_BASE_URL \o "/topstories.json"

\* JSON bodies.
NullBody == [json |-> "null"]
GarbageBody == [json |-> "garbage"]
ItemBody(it) == [json |-> "item", item |-> it]
UserBody(u) == [json |-> "user", user |-> u]
IdsBody(ids) == [json |-> "ids", ids |-> ids]

\* What the store holds under each URL: id 3 and user "ghost" do not exist.
RemoteBody(url) ==
    CASE url = ItemUrl(5) -> ItemBody(Item5)
      [] url = ItemUrl(9) -> ItemBody(Item9)
      [] url = UserUrl("pg") -> UserBody(UserPg)
      [] url = TopStoriesUrl -> IdsBody(TopStories)
      [] OTHER -> NullBody

\* A body that has not been read yet, and a body whose read fails (the
\* connection breaks, or the timeout fires, after the head has arrived).
PendingBody == [json |-> "pending"]
BrokenBody == [json |-> "broken"]

\* The outcome of one round trip: no response at all, or a response.
Timeout == [net |-> "timeout", status |-> 0, body |-> NullBody]
Response(status, body) == [net |-> "ok", status |-> status, body |-> body]
NoResponse == [net |-> "none", status |-> 0, body |-> NullBody]

\* Every way send().await may resolve: no response, or the head of a
\* response, whose body is still to be read.
Heads == {Timeout, Response(200, PendingBody), Response(500, PendingBody)}

\* Every way the body of a response to url may arrive, whatever the status
\* of the response: what the store holds, null, bytes that are not the JSON
\* asked for, or a read that fails.
Bodies(url) == {RemoteBody(url), NullBody, GarbageBody, BrokenBody}

(***************************************************************************)
(* Errors.                                                                 *)
(***************************************************************************)
ItemNotFoundError(id) == [kind |-> "ItemNotFoundError", id |-> id]
UserNotFoundError(username) == [kind |-> "UserNotFoundError", username |-> username]
\* reqwest::Error of a failed send (carries the URL), of a failed read of
\* the body and of a failed decode.
SendError(url, cause) == [cause |-> cause, url |-> url]
BodyError == [cause |-> "body", url |-> ""]
DecodeError == [cause |-> "decode", url |-> ""]
\* HnClientError::from(reqwest::Error)
HnClientError_from(e) ==
    [kind |-> IF e.cause = "decode" THEN "Decode" ELSE "Transport",
     cause |-> e.cause, url |-> e.url]

(***************************************************************************)
(* The request pipeline: client.get(url).send().await?.json().await        *)
(* json() reads the whole body and then decodes it.                        *)
(***************************************************************************)
\* send(): fails only when no response arrives; any status is a response.
send(url, out) ==
    IF out.net = "ok" THEN Ok(out) ELSE Err(SendError(url, out.net))

\* Variant: the target type is not optional, null does not decode.
json_opt_item_no_null(body) ==
    CASE body.json = "broken" -> Err(BodyError)
      [] body.json = "item" -> Ok(Some(body.item))
      [] OTHER -> Err(DecodeError)

\* json::<Option<Item>>()
json_opt_item(body) ==
    CASE body.json = "broken" -> Err(BodyError)
      [] body.json = "null" -> Ok(None)
      [] body.json = "item" -> Ok(Some(body.item))
      [] OTHER -> Err(DecodeError)

\* Variant: null decodes into a defaulted user instead of None.
json_opt_user_default(body) ==
    CASE body.json = "broken" -> Err(BodyError)
      [] body.json = "null" -> Ok(Some([name |-> ""]))
      [] body.json = "user" -> Ok(Some(body.user))
      [] OTHER -> Err(DecodeError)

\* json::<Option<User>>()
json_opt_user(body) ==
    CASE body.json = "broken" -> Err(BodyError)
      [] body.json = "null" -> Ok(None)
      [] body.json = "user" -> Ok(Some(body.user))
      [] OTHER -> Err(DecodeError)

\* json::<Vec<u32>>()
json_ids(body) ==
    CASE body.json = "broken" -> Err(BodyError)
      [] body.json = "ids" -> Ok(body.ids)
      [] OTHER -> Err(DecodeError)

\* Variant: a decode failure is swallowed into an absent value.
map_err_swallow(r) == IF r.ok THEN r ELSE Ok(None)

map_err(r) == IF r.ok THEN r ELSE Err(HnClientError_from(r.err))

\* Option::ok_or
ok_or(opt, e) == IF opt.some THEN Ok(opt.v) ELSE Err(e)

try_get_item(id, out) ==
    LET sent == send(ItemUrl(id), out)
    IN  IF ~sent.ok THEN Err(HnClientError_from(sent.err))
        ELSE map_err(json_opt_item(sent.val.body))

\* Variant: every failure of the lookup is reported as not found.
get_item_all_not_found(id, out) ==
    LET r == try_get_item(id, out)
    IN  IF r.ok /\ r.val.some THEN Ok(r.val.v) ELSE Err(ItemNotFoundError(id))

\* Variant: a body that does not decode is reported as a missing item.
get_item_decode_not_found(id, out) ==
    LET r == try_get_item(id, out)
    IN  IF r.ok THEN ok_or(r.val, ItemNotFoundError(id))
        ELSE IF r.err.kind = "Decode" THEN Err(ItemNotFoundError(id))
        ELSE r

get_item(id, out) ==
    LET r == try_get_item(id, out)
    IN  IF ~r.ok THEN r ELSE ok_or(r.val, ItemNotFoundError(id))

try_get_user(username, out) ==
    LET sent == send(UserUrl(username), out)
    IN  IF ~sent.ok THEN Err(HnClientError_from(sent.err))
        ELSE map_err(json_opt_user(sent.val.body))

\* Variant: the not-found error loses the requested username.
get_user_anonymous(username, out) ==
    LET r == try_get_user(username, out)
    IN  IF ~r.ok THEN r ELSE ok_or(r.val, UserNotFoundError(""))

get_user(username, out) ==
    LET r == try_get_user(username, out)
    IN  IF ~r.ok THEN r ELSE ok_or(r.val, UserNotFoundError(username))

get_top_stories(out) ==
    LET sent == send(TopStoriesUrl, out)
    IN  IF ~sent.ok THEN Err(HnClientError_from(sent.err))
        ELSE map_err(json_ids(sent.val.body))

(***************************************************************************)
(* Reduction of the joined outputs.                                        *)
(***************************************************************************)
\* Iterator::collect::<Result<Vec<_>>>(): the first Err in sequence order,
\* otherwise the Vec of all Ok values.
RECURSIVE collect_from(_, _, _)
collect_from(rs, i, acc) ==
    IF i > Len(rs) THEN Ok(acc)
    ELSE IF ~rs[i].ok THEN rs[i]
    ELSE collect_from(rs, i + 1, Append(acc, rs[i].val))

\* Variant: the last Err in sequence order instead of the first.
collect_last(rs) ==
    IF \E i \in 1..Len(rs) : ~rs[i].ok
    THEN rs[CHOOSE i \in 1..Len(rs) :
                ~rs[i].ok /\ \A j \in (i + 1)..Len(rs) : rs[j].ok]
    ELSE collect_from(rs, 1, <<>>)

\* Variant: a transport or decode error takes precedence over a not-found
\* error at a lower index.
collect_transport_first(rs) ==
    LET hard == {i \in 1..Len(rs) :
                    ~rs[i].ok /\ rs[i].err.kind \in {"Transport", "Decode"}}
    IN  IF hard # {} THEN rs[CHOOSE i \in hard : \A j \in hard : i <= j]
        ELSE collect_from(rs, 1, <<>>)

\* Variant: an empty input has no first element to reduce from.
collect_nonempty(rs) ==
    IF Len(rs) = 0 THEN Err(UserNotFoundError(""))
    ELSE collect_from(rs, 1, <<>>)

collect(rs) == collect_from(rs, 1, <<>>)

\* Variant: an entry without a future is an error, as in the strict chain.
transpose_strict(o) ==
    IF ~o.some THEN Err(UserNotFoundError(""))
    ELSE IF o.v.ok THEN Ok(Some(o.v.val)) ELSE o.v

\* Option<Result<T>>::transpose
transpose(o) ==
    IF ~o.some THEN Ok(None)
    ELSE IF o.v.ok THEN Ok(Some(o.v.val)) ELSE o.v

\* Option<Option<T>>::flatten
flatten(oo) == IF oo.some THEN oo.v ELSE None

\* Variant: items without an author are skipped instead of failing.
RECURSIVE usernames_skip_from(_, _)
usernames_skip_from(items, i) ==
    IF i > Len(items) THEN <<>>
    ELSE (IF author(items[i]).some THEN <<author(items[i]).v>> ELSE <<>>)
            \o usernames_skip_from(items, i + 1)

usernames_skip(items) == Ok(usernames_skip_from(items, 1))

\* get_authors, lines 136-142: the usernames, or the local failure.
usernames(items) ==
    collect([i \in 1..Len(items) |->
                ok_or(author(items[i]), UserNotFoundError(""))])

\* try_get_authors, lines 159-161: the username entry i is fetched for, if any.
author_of(item) == IF item.some THEN author(item.v) ELSE None

(***************************************************************************)
(* The state of the call in progress.                                      *)
(***************************************************************************)
VARIABLES
    pc,        \* "idle", "created" (future not yet polled), "running", "done"
    op,        \* the operation called
    args,      \* its input sequence (a single key is a sequence of one)
    slots,     \* per future: st in {"sent", "head", "done"} (awaiting
               \* send(), awaiting json(), settled), out: what arrived
    sent,      \* the requests issued by this call, in order: [idx, url]
    order,     \* indices of the futures in the order they settled
    result,    \* what the caller receives
    prev       \* the call completed before this one, when it is kept to
               \* compare a repeated call with: op, args, outs, result

vars == <<pc, op, args, slots, sent, order, result, prev>>

\* No earlier call is kept.
NoCall == [called |-> FALSE]

SingleItemOps == {"get_item", "try_get_item"}
SingleUserOps == {"get_user", "try_get_user"}
ItemBatchOps == {"get_items", "try_get_items"}
AuthorOps == {"get_authors", "try_get_authors"}
BatchOps == ItemBatchOps \cup AuthorOps
Ops == SingleItemOps \cup SingleUserOps \cup BatchOps \cup {"get_top_stories"}

RECURSIVE SeqsOfLen(_, _)
SeqsOfLen(S, n) ==
    IF n = 0 THEN {<<>>}
    ELSE {Append(s, x) : s \in SeqsOfLen(S, n - 1), x \in S}

SeqsUpTo(S, n) == UNION {SeqsOfLen(S, k) : k \in 0..n}

\* The inputs each operation is called with.  A batch is any short sequence
\* over its elements, or one of the longer batches named above.
Inputs(o) ==
    CASE o \in SingleItemOps -> SeqsOfLen(ItemIds, 1)
      [] o \in SingleUserOps -> SeqsOfLen(Usernames, 1)
      [] o \in ItemBatchOps ->
            SeqsUpTo(BatchIds, MaxLen) \cup {TopStories, RepeatedIds}
      [] o = "get_authors" -> SeqsUpTo(Items, MaxLen)
      [] o = "try_get_authors" ->
            SeqsUpTo(OptItems, MaxLen) \cup {AuthorEntries}
      [] o = "get_top_stories" -> {<<>>}

\* Number of futures the call joins (or the single future it awaits);
\* get_authors joins one future per extracted username.
NumFutures(o, a) ==
    CASE o = "get_top_stories" -> 1
      [] o = "get_authors" -> Len(usernames(a).val)
      [] OTHER -> Len(a)

\* Whether future i performs a round trip; the OptionFuture of an entry
\* without a username resolves without one.
NeedsRequest(o, a, i) ==
    IF o = "try_get_authors" THEN author_of(a[i]).some ELSE TRUE

\* The URL future i requests.
UrlOf(o, a, i) ==
    CASE o \in SingleItemOps \cup ItemBatchOps -> ItemUrl(a[i])
      [] o \in SingleUserOps -> UserUrl(a[i])
      [] o = "get_authors" -> UserUrl(usernames(a).val[i])
      [] o = "try_get_authors" -> UserUrl(author_of(a[i]).v)
      [] o = "get_top_stories" -> TopStoriesUrl

\* The output of future i once it has settled with round trip outcome out.
FutureOut(o, a, i, out) ==
    CASE o \in {"get_item", "get_items"} -> get_item(a[i], out)
      [] o \in {"try_get_item", "try_get_items"} -> try_get_item(a[i], out)
      [] o = "get_user" -> get_user(a[i], out)
      [] o = "try_get_user" -> try_get_user(a[i], out)
      [] o = "get_authors" -> get_user(usernames(a).val[i], out)
      [] o = "try_get_authors" ->
            LET u == author_of(a[i])
                f == IF u.some THEN Some(try_get_user(u.v, out)) ELSE None
                t == transpose(f)
            IN  IF t.ok THEN Ok(flatten(t.val)) ELSE t
      [] o = "get_top_stories" -> get_top_stories(out)

\* Variant: the outputs in the order in which the futures settled.
join_all_by_completion(o, a, sl, ord) ==
    [k \in 1..Len(sl) |-> FutureOut(o, a, ord[k], sl[ord[k]].out)]

\* join_all: the outputs of the futures, in the order of the input.
join_all(o, a, sl, ord) == [i \in 1..Len(sl) |-> FutureOut(o, a, i, sl[i].out)]

\* Variant: the error of the future that failed first in time is returned.
Reduce_first_observed(o, a, sl, ord) ==
    IF o \in BatchOps
    THEN LET outs == [i \in 1..Len(sl) |-> FutureOut(o, a, i, sl[i].out)]
             bad == {k \in 1..Len(ord) : ~outs[ord[k]].ok}
         IN  IF bad = {} THEN collect(outs)
             ELSE outs[ord[CHOOSE k \in bad : \A m \in bad : k <= m]]
    ELSE FutureOut(o, a, 1, sl[1].out)

\* What the call returns once every future has settled.
Reduce(o, a, sl, ord) ==
    IF o \in BatchOps THEN collect(join_all(o, a, sl, ord))
    ELSE FutureOut(o, a, 1, sl[1].out)

\* The indices 1..n for which future i needs no round trip, ascending.
RECURSIVE NoRequestFrom(_, _, _)
NoRequestFrom(o, a, i) ==
    IF i > NumFutures(o, a) THEN <<>>
    ELSE (IF NeedsRequest(o, a, i) THEN <<>> ELSE <<i>>)
            \o NoRequestFrom(o, a, i + 1)

\* Variant: a URL already requested by an earlier future is not requested
\* again.
RECURSIVE RequestsFrom_cached(_, _, _)
RequestsFrom_cached(o, a, i) ==
    IF i > NumFutures(o, a) THEN <<>>
    ELSE (IF NeedsRequest(o, a, i)
             /\ ~\E j \in 1..(i - 1) :
                    NeedsRequest(o, a, j) /\ UrlOf(o, a, j) = UrlOf(o, a, i)
          THEN <<[idx |-> i, url |-> UrlOf(o, a, i)]>> ELSE <<>>)
            \o RequestsFrom_cached(o, a, i + 1)

\* Variant: at most two requests are started by the first poll
\* (a concurrency cap).
RECURSIVE RequestsFrom_capped(_, _, _)
RequestsFrom_capped(o, a, i) ==
    IF i > NumFutures(o, a) \/ i > 2 THEN <<>>
    ELSE (IF NeedsRequest(o, a, i)
          THEN <<[idx |-> i, url |-> UrlOf(o, a, i)]>> ELSE <<>>)
            \o RequestsFrom_capped(o, a, i + 1)

\* The requests of the futures that need one, ascending.
RECURSIVE RequestsFrom(_, _, _)
RequestsFrom(o, a, i) ==
    IF i > NumFutures(o, a) THEN <<>>
    ELSE (IF NeedsRequest(o, a, i)
          THEN <<[idx |-> i, url |-> UrlOf(o, a, i)]>> ELSE <<>>)
            \o RequestsFrom(o, a, i + 1)

\* Variant: the join resolves as soon as one future has failed
\* (try_join_all).
Ready_on_first_error(o, a, sl) ==
    \/ \A i \in 1..Len(sl) : sl[i].st = "done"
    \/ \E i \in 1..Len(sl) :
          sl[i].st = "done" /\ ~FutureOut(o, a, i, sl[i].out).ok

\* The join (or the single await) resolves when every future has settled.
Ready(o, a, sl) == \A i \in 1..Len(sl) : sl[i].st = "done"

Init ==
    /\ pc = "idle"
    /\ op = "none"
    /\ args = <<>>
    /\ slots = <<>>
    /\ sent = <<>>
    /\ order = <<>>
    /\ result = NoResult
    /\ prev = NoCall

\* The caller invokes an operation: the future is created, nothing runs yet.
Call(o, a) ==
    /\ pc = "idle"
    /\ pc' = "created"
    /\ op' = o
    /\ args' = a
    /\ UNCHANGED <<slots, sent, order, result, prev>>

\* First poll: the body runs to its first suspension.  get_authors extracts
\* the usernames and returns the local failure if one is missing; otherwise
\* every future is polled once, in input order: its request goes out, or,
\* for an entry without a username, it settles at once with no request.
Start ==
    /\ pc = "created"
    /\ IF op = "get_authors" /\ ~usernames(args).ok
       THEN /\ pc' = "done"
            /\ result' = usernames(args)
            /\ UNCHANGED <<slots, sent, order>>
       ELSE /\ pc' = "running"
            /\ slots' = [i \in 1..NumFutures(op, args) |->
                            [st |-> IF NeedsRequest(op, args, i)
                                    THEN "sent" ELSE "done",
                             out |-> NoResponse]]
            /\ sent' = RequestsFrom(op, args, 1)
            /\ order' = NoRequestFrom(op, args, 1)
            /\ UNCHANGED result
    /\ UNCHANGED <<op, args, prev>>

\* send().await of future i resolves: with no response the future settles
\* with the error; with the head of a response it calls json() and is
\* suspended again until the body has arrived.
Respond(i) ==
    /\ pc = "running"
    /\ i \in 1..Len(slots)
    /\ slots[i].st = "sent"
    /\ \E h \in Heads :
          IF h.net = "ok"
          THEN /\ slots' = [slots EXCEPT ![i] = [st |-> "head", out |-> h]]
               /\ order' = order
          ELSE /\ slots' = [slots EXCEPT ![i] = [st |-> "done", out |-> h]]
               /\ order' = Append(order, i)
    /\ UNCHANGED <<pc, op, args, sent, result, prev>>

\* json().await of future i resolves: the body has arrived, or its read has
\* failed, and the future settles.
ReadBody(i) ==
    /\ pc = "running"
    /\ i \in 1..Len(slots)
    /\ slots[i].st = "head"
    /\ \E b \in Bodies(UrlOf(op, args, i)) :
          slots' = [slots EXCEPT ![i] =
                        [st |-> "done",
                         out |-> Response(slots[i].out.status, b)]]
    /\ order' = Append(order, i)
    /\ UNCHANGED <<pc, op, args, sent, result, prev>>

\* Every future has settled: the outputs are reduced and the call returns.
Finish ==
    /\ pc = "running"
    /\ Ready(op, args, slots)
    /\ result' = Reduce(op, args, slots, order)
    /\ pc' = "done"
    /\ UNCHANGED <<op, args, slots, sent, order, prev>>

\* The caller takes the result and the client is free for the next call.
Return ==
    /\ pc = "done"
    /\ pc' = "idle"
    /\ op' = "none"
    /\ args' = <<>>
    /\ slots' = <<>>
    /\ sent' = <<>>
    /\ order' = <<>>
    /\ result' = NoResult
    /\ UNCHANGED prev

\* A call is made on an idle client only, so the inputs are drawn there.
Next ==
    \/ (pc = "idle" /\ \E o \in Ops : \E a \in Inputs(o) : Call(o, a))
    \/ Start
    \/ \E i \in 1..Len(slots) : Respond(i)
    \/ \E i \in 1..Len(slots) : ReadBody(i)
    \/ Finish
    \/ Return

Spec == Init /\ [][Next]_vars

(***************************************************************************)
(* The same client called twice: the first completed call is kept, and the *)
(* next call is made with the same input against the same store, its       *)
(* round trips meeting the same outcome per key, in any completion order.  *)
(* The second call is the same operation again, or, for get_items and      *)
(* try_get_items, possibly the other one of the two.                       *)
(***************************************************************************)
Family(o) == IF o \in ItemBatchOps THEN ItemBatchOps ELSE {o}

\* Longest input sequence of a call that is repeated.
TwiceLen == 2

\* The inputs of the calls that are repeated.
InputsTwice(o) ==
    CASE o \in SingleItemOps -> SeqsOfLen(ItemIds, 1)
      [] o \in SingleUserOps -> SeqsOfLen(Usernames, 1)
      [] o \in ItemBatchOps -> SeqsUpTo(BatchIds, TwiceLen)
      [] o = "get_authors" -> SeqsUpTo(Items, TwiceLen)
      [] o = "try_get_authors" -> SeqsUpTo(OptItems, TwiceLen)
      [] o = "get_top_stories" -> {<<>>}

CallAgain(o, a) ==
    /\ prev.called => (o \in Family(prev.op) /\ a = prev.args)
    /\ Call(o, a)

RespondAgain(i) ==
    /\ Respond(i)
    /\ prev.called =>
          /\ slots'[i].out.net = prev.outs[i].net
          /\ slots'[i].out.status = prev.outs[i].status

ReadBodyAgain(i) ==
    /\ ReadBody(i)
    /\ prev.called => slots'[i].out = prev.outs[i]

\* The caller takes the result of the first call and keeps it.
Remember ==
    /\ pc = "done"
    /\ ~prev.called
    /\ prev' = [called |-> TRUE, op |-> op, args |-> args,
                outs |-> [i \in 1..Len(slots) |-> slots[i].out],
                result |-> result]
    /\ pc' = "idle"
    /\ op' = "none"
    /\ args' = <<>>
    /\ slots' = <<>>
    /\ sent' = <<>>
    /\ order' = <<>>
    /\ result' = NoResult

NextTwice ==
    \/ (pc = "idle"
          /\ \E o \in Ops : \E a \in InputsTwice(o) : CallAgain(o, a))
    \/ Start
    \/ \E i \in 1..Len(slots) : RespondAgain(i)
    \/ \E i \in 1..Len(slots) : ReadBodyAgain(i)
    \/ Finish
    \/ Remember
    \/ (prev.called /\ Return)

SpecTwice == Init /\ [][NextTwice]_vars

(***************************************************************************)
(* Vocabulary of the properties.                                           *)
(***************************************************************************)
Done(o) == pc = "done" /\ op = o

\* The round trip produced an error: no response, a body whose read
\* failed, or an undecodable body.
RoundTripFailed(out) ==
    out.net # "ok" \/ out.body = BrokenBody \/ out.body = GarbageBody

\* The response carried the JSON value null.
NullAnswer(out) == out.net = "ok" /\ out.body = NullBody

\* The error a failed round trip for url produces.
RoundTripError(url, out) ==
    IF out.net # "ok"
    THEN [kind |-> "Transport", cause |-> out.net, url |-> url]
    ELSE IF out.body = BrokenBody
    THEN [kind |-> "Transport", cause |-> "body", url |-> ""]
    ELSE [kind |-> "Decode", cause |-> "decode", url |-> ""]

\* The store answered the request for url itself, with status 200.
Served(url, out) == out = Response(200, RemoteBody(url))

\* Future i of the call issued a request.
Issued(i) == \E k \in 1..Len(sent) : sent[k].idx = i

(***************************************************************************)
(* C1.  Whenever get_items or try_get_items succeeds, the output has the   *)
(* length of the input and output[i] is what the round trip for input[i]   *)
(* (the request to the URL of input[i]) answered, also for repeated ids    *)
(* and whatever the order in which the round trips completed.              *)
(***************************************************************************)
C1_IndexCorrespondence ==
    (pc = "done" /\ op \in ItemBatchOps /\ result.ok) =>
        /\ Len(result.val) = Len(args)
        /\ \A i \in 1..Len(args) :
              /\ sent[i] = [idx |-> i, url |-> ItemUrl(args[i])]
              /\ slots[i].out.net = "ok"
              /\ IF op = "get_items"
                 THEN slots[i].out.body = ItemBody(result.val[i])
                 ELSE slots[i].out.body =
                        (IF result.val[i].some
                         THEN ItemBody(result.val[i].v) ELSE NullBody)

\* A successful batch with a repeated id and differing slots whose last
\* request completed first.
C1_Witness ==
    /\ Done("try_get_items")
    /\ result.ok
    /\ args = RepeatedIds
    /\ order = <<3, 1, 2>>
    /\ result.val = <<Some(Item5), None, Some(Item5)>>

(***************************************************************************)
(* C2.  try_get_items in which no round trip fails succeeds, with None     *)
(* exactly in the slots whose id was reported absent (a null answer) and   *)
(* Some(item) of the answered item in every other slot, in input order;    *)
(* the id list of the top-stories endpoint, [5,3,9] with 3 absent from the *)
(* store, yields [Some(item5), None, Some(item9)].                         *)
(***************************************************************************)
C2_TolerantAbsence ==
    (Done("try_get_items")
       /\ \A i \in 1..Len(slots) : ~RoundTripFailed(slots[i].out)) =>
        /\ result.ok
        /\ Len(result.val) = Len(args)
        /\ \A i \in 1..Len(args) :
              /\ NullAnswer(slots[i].out) <=> result.val[i] = None
              /\ ~NullAnswer(slots[i].out) =>
                    result.val[i] = Some(slots[i].out.body.item)
        /\ (args = TopStories
              /\ \A i \in 1..Len(slots) :
                    Served(ItemUrl(args[i]), slots[i].out)) =>
              result = Ok(<<Some(Item5), None, Some(Item9)>>)

C2_Witness ==
    /\ Done("try_get_items")
    /\ args = TopStories
    /\ \A i \in 1..Len(slots) : Served(ItemUrl(args[i]), slots[i].out)
    /\ result = Ok(<<Some(Item5), None, Some(Item9)>>)

(***************************************************************************)
(* C3.  As claimed: get_items over a sequence containing an id the store   *)
(* reports absent fails with ItemNotFoundError.                            *)
(***************************************************************************)
C3_Original ==
    (Done("get_items")
       /\ \E i \in 1..Len(args) : Served(ItemUrl(args[i]), slots[i].out)
                                     /\ NullAnswer(slots[i].out)) =>
        /\ ~result.ok
        /\ result.err.kind = "ItemNotFoundError"

\* The first position whose future did not yield an item.
FirstMissing ==
    CHOOSE i \in 1..Len(slots) :
        /\ RoundTripFailed(slots[i].out) \/ NullAnswer(slots[i].out)
        /\ \A j \in 1..(i - 1) :
              ~RoundTripFailed(slots[j].out) /\ ~NullAnswer(slots[j].out)

(***************************************************************************)
(* C3, amended.  get_items over a sequence containing an id reported       *)
(* absent fails and produces no result value; the error is that of the     *)
(* first position that yielded no item: ItemNotFoundError of its id when   *)
(* that position was reported absent, the transport or decode error of its *)
(* round trip otherwise.  When no round trip fails it is ItemNotFoundError *)
(* of the first absent id.                                                 *)
(***************************************************************************)
C3_StrictAbsenceFails ==
    (Done("get_items")
       /\ \E i \in 1..Len(args) : NullAnswer(slots[i].out)) =>
        /\ ~result.ok
        /\ LET f == FirstMissing
           IN  result.err =
                 (IF NullAnswer(slots[f].out)
                  THEN ItemNotFoundError(args[f])
                  ELSE RoundTripError(ItemUrl(args[f]), slots[f].out))
        /\ (\A i \in 1..Len(args) : ~RoundTripFailed(slots[i].out)) =>
              result.err.kind = "ItemNotFoundError"

\* An absent id behind an item that was fetched: NotFound of the absent id.
C3_Witness ==
    /\ Done("get_items")
    /\ args = RepeatedIds
    /\ \A i \in 1..Len(slots) : Served(ItemUrl(args[i]), slots[i].out)
    /\ result = Err(ItemNotFoundError(3))

(***************************************************************************)
(* C4.  In try_get_items and try_get_authors, if a round trip that was     *)
(* issued fails with a transport or decode error, the operation returns an *)
(* error of that kind and no collection; a collection, when returned, is   *)
(* complete, and none of its slots belongs to a failed round trip.         *)
(***************************************************************************)
C4_TolerantFailsWhole ==
    (pc = "done" /\ op \in {"try_get_items", "try_get_authors"}) =>
        /\ (\E i \in 1..Len(slots) :
                Issued(i) /\ RoundTripFailed(slots[i].out)) =>
              /\ ~result.ok
              /\ result.err.kind \in {"Transport", "Decode"}
        /\ result.ok =>
              /\ Len(result.val) = Len(args)
              /\ \A i \in 1..Len(slots) :
                    Issued(i) => ~RoundTripFailed(slots[i].out)

\* A failed user fetch next to a fetched user.
C4_Witness ==
    /\ Done("try_get_authors")
    /\ args = <<Some(Item5), Some(Item5)>>
    /\ slots[1].out = Response(200, UserBody(UserPg))
    /\ slots[2].out = Response(200, GarbageBody)
    /\ ~result.ok

(***************************************************************************)
(* C5.  get_items over [itemA, itemB] where itemA's round trip returns the *)
(* item and itemB's times out fails with the transport error of itemB's    *)
(* request, whichever of the two completed first.                          *)
(***************************************************************************)
C5_StrictTransportFailure ==
    (Done("get_items") /\ Len(args) = 2
       /\ slots[1].out.net = "ok" /\ slots[1].out.body.json = "item"
       /\ slots[2].out = Timeout) =>
        result = Err([kind |-> "Transport", cause |-> "timeout",
                      url |-> ItemUrl(args[2])])

\* itemA had already been fetched when itemB timed out.
C5_Witness ==
    /\ Done("get_items")
    /\ args = <<5, 3>>
    /\ order = <<1, 2>>
    /\ slots[1].out = Response(200, ItemBody(Item5))
    /\ slots[2].out = Timeout
    /\ ~result.ok

(***************************************************************************)
(* C6.  get_authors over items of which at least one has no author fails   *)
(* with UserNotFoundError("") without issuing any request: the call is     *)
(* never awaiting a round trip, and it ends with an empty request log.     *)
(***************************************************************************)
C6_AuthorsLocalFailure ==
    (op = "get_authors" /\ pc \in {"running", "done"}
       /\ \E i \in 1..Len(args) : ~args[i].by.some) =>
        /\ pc = "done"
        /\ sent = <<>>
        /\ slots = <<>>
        /\ result = Err(UserNotFoundError(""))

\* An item with an author ahead of an item without one.
C6_Witness ==
    /\ Done("get_authors")
    /\ args = <<Item5, Item9>>
    /\ sent = <<>>
    /\ result = Err(UserNotFoundError(""))

\* Entry i of try_get_authors is a present item that has an author.
HasAuthor(i) == args[i].some /\ args[i].v.by.some

(***************************************************************************)
(* C7.  try_get_authors issues a request exactly for the entries that are  *)
(* a present item with an author; when no issued fetch fails it succeeds   *)
(* with an output of the input's length in which output[i] is Some(user)   *)
(* exactly when entry i has an author and the store answered with that     *)
(* user, and None otherwise.  With entry 0 lacking an author and entry 2   *)
(* absent the output is [None, Some(user), None].                          *)
(***************************************************************************)
C7_TolerantAuthors ==
    (op = "try_get_authors" /\ pc \in {"running", "done"}) =>
        /\ \A i \in 1..Len(args) : Issued(i) <=> HasAuthor(i)
        /\ Len(sent) = Cardinality({i \in 1..Len(args) : HasAuthor(i)})
        /\ (pc = "done"
              /\ \A i \in 1..Len(args) :
                    Issued(i) => ~RoundTripFailed(slots[i].out)) =>
              /\ result.ok
              /\ Len(result.val) = Len(args)
              /\ \A i \in 1..Len(args) :
                    result.val[i] =
                      (IF HasAuthor(i) /\ ~NullAnswer(slots[i].out)
                       THEN Some(slots[i].out.body.user) ELSE None)
              /\ \A i \in 1..Len(args) :
                    (HasAuthor(i)
                       /\ Served(UserUrl(args[i].v.by.v), slots[i].out)) =>
                        (result.val[i].some <=>
                            RemoteBody(UserUrl(args[i].v.by.v)) # NullBody)

C7_Witness ==
    /\ Done("try_get_authors")
    /\ args = AuthorEntries
    /\ Len(sent) = 1
    /\ result = Ok(<<None, Some(UserPg), None>>)

(***************************************************************************)
(* C8.  For try_get_item and try_get_user: absence (None) is reported only *)
(* for a null body of a successful response; a malformed body of a         *)
(* successful response is a decode failure; and a network failure,         *)
(* including every response with a non-2xx status whatever its body, is a  *)
(* transport error, never absence and never a resource.                    *)
(***************************************************************************)
C8_OutcomesDistinct ==
    (pc = "done" /\ op \in {"try_get_item", "try_get_user"}) =>
        LET out == slots[1].out
            success == out.net = "ok" /\ out.status \in 200..299
        IN  /\ (result.ok /\ result.val = None) =>
                  (success /\ out.body = NullBody)
            /\ (success /\ out.body = GarbageBody) =>
                  (~result.ok /\ result.err.kind = "Decode")
            /\ ~success =>
                  (~result.ok /\ result.err.kind = "Transport")

(***************************************************************************)
(* C9.  For every key and every outcome of the round trip: when a resource *)
(* r is answered the strict call returns r and the tolerant call Some(r);  *)
(* when null is answered the tolerant call returns None and the strict     *)
(* call fails with the not-found error carrying exactly the requested key; *)
(* when the round trip fails both fail with its transport or decode error. *)
(* A strict call never succeeds with an absence marker.                    *)
(***************************************************************************)
C9_StrictTolerantAgree ==
    (pc = "done" /\ op \in SingleItemOps \cup SingleUserOps) =>
        LET out == slots[1].out
            key == args[1]
            strict == op \in {"get_item", "get_user"}
            isItem == op \in SingleItemOps
            url == IF isItem THEN ItemUrl(key) ELSE UserUrl(key)
            notFound == IF isItem THEN ItemNotFoundError(key)
                        ELSE UserNotFoundError(key)
        IN  /\ (out.net = "ok" /\ out.body.json \in {"item", "user"}) =>
                  LET r == IF isItem THEN out.body.item ELSE out.body.user
                  IN  result = (IF strict THEN Ok(r) ELSE Ok(Some(r)))
            /\ NullAnswer(out) =>
                  result = (IF strict THEN Err(notFound) ELSE Ok(None))
            /\ RoundTripFailed(out) =>
                  result = Err(RoundTripError(url, out))
            /\ (strict /\ result.ok) => result.val \in Items \cup {UserPg}

\* A strict user lookup of a name the store does not hold.
C9_Witness ==
    /\ Done("get_user")
    /\ args = <<"ghost">>
    /\ slots[1].out = Response(200, NullBody)
    /\ result = Err(UserNotFoundError("ghost"))

(***************************************************************************)
(* C10.  No retry and no caching: a single lookup has issued exactly one   *)
(* request, and get_items and try_get_items over n keys have issued        *)
(* exactly n requests, the i-th one for the i-th key (a repeated key is    *)
(* requested again, a failed or absent key is requested once), from the    *)
(* first poll until the call has returned, whether it succeeds or fails.   *)
(***************************************************************************)
C10_OneRoundTripPerKey ==
    (pc \in {"running", "done"}
       /\ op \in SingleItemOps \cup SingleUserOps \cup ItemBatchOps) =>
        /\ Len(sent) = Len(args)
        /\ \A i \in 1..Len(args) :
              sent[i] = [idx |-> i,
                         url |-> IF op \in SingleUserOps
                                 THEN UserUrl(args[i]) ELSE ItemUrl(args[i])]

\* A failed batch with a repeated key, an absent key and a timed-out key.
C10_Witness ==
    /\ Done("get_items")
    /\ args = RepeatedIds
    /\ slots[3].out = Timeout
    /\ Len(sent) = 3
    /\ ~result.ok

\* The futures whose round trip has completed.
Settled == {order[k] : k \in 1..Len(order)}

(***************************************************************************)
(* C11.  In get_items and try_get_items every request is started by the    *)
(* first poll, whatever has or has not completed: from then on each key's  *)
(* request has been issued and is in flight (awaiting its response or the  *)
(* body of it) exactly until its own round trip completes, and while       *)
(* nothing has completed all n are in flight together.                     *)
(***************************************************************************)
C11_AllIssuedAtOnce ==
    (op \in ItemBatchOps /\ pc \in {"running", "done"}) =>
        /\ \A i \in 1..Len(args) :
              /\ Issued(i)
              /\ slots[i].st \in {"sent", "head"} <=> i \notin Settled
        /\ order = <<>> =>
              Cardinality({i \in 1..Len(slots) :
                              slots[i].st \in {"sent", "head"}})
                 = Len(args)

\* Three requests in flight at once, none of them answered.
C11_Witness ==
    /\ op = "get_items"
    /\ pc = "running"
    /\ args = TopStories
    /\ Len(sent) = Len(args)
    /\ order = <<>>
    /\ \A i \in 1..Len(slots) : slots[i].st = "sent"

\* The futures whose round trip failed with a transport or decode error.
FailedTrips ==
    {i \in 1..Len(slots) :
        Issued(i) /\ slots[i].st = "done" /\ RoundTripFailed(slots[i].out)}

\* The failed round trip that was observed first in time.
FirstObservedFailure ==
    order[CHOOSE k \in 1..Len(order) :
            /\ order[k] \in FailedTrips
            /\ \A m \in 1..(k - 1) : order[m] \notin FailedTrips]

\* The failed round trip with the lowest input index.
LowestFailure == CHOOSE i \in FailedTrips : \A j \in FailedTrips : i <= j

\* The transport or decode error of future i.
TripError(i) == RoundTripError(UrlOf(op, args, i), slots[i].out)

(***************************************************************************)
(* C12.  As claimed: in every batch and author-chain operation, when       *)
(* round trips fail with transport or decode errors, the error surfaced to *)
(* the caller is the first such error observed.                            *)
(***************************************************************************)
C12_Original ==
    (pc = "done" /\ op \in BatchOps /\ FailedTrips # {}) =>
        /\ ~result.ok
        /\ result.err = TripError(FirstObservedFailure)

(***************************************************************************)
(* C12, amended.  When round trips of a batch or author-chain operation    *)
(* fail with transport or decode errors, the operation fails once every    *)
(* request has settled, and the error surfaced is, unchanged, that of the  *)
(* failed call with the lowest input index, whenever it was observed: the  *)
(* error of the lowest failed round trip, unless in a strict operation an  *)
(* entry at a still lower index was reported absent, whose not-found error *)
(* is surfaced instead.                                                    *)
(***************************************************************************)
C12_LowestIndexErrorSurfaced ==
    (pc = "done" /\ op \in BatchOps /\ FailedTrips # {}) =>
        /\ ~result.ok
        /\ \A i \in 1..Len(slots) : slots[i].st = "done"
        /\ LET f == LowestFailure
               strict == op \in {"get_items", "get_authors"}
           IN  IF strict /\ \E j \in 1..(f - 1) : NullAnswer(slots[j].out)
               THEN result.err.kind \in
                        {"ItemNotFoundError", "UserNotFoundError"}
               ELSE result.err = TripError(f)

\* The second user fetch fails first, with a decode error; the first one
\* times out later, and its error is the one returned.
C12_Witness ==
    /\ Done("try_get_authors")
    /\ args = <<Some(Item5), Some(Item7)>>
    /\ order = <<2, 1>>
    /\ slots[1].out = Timeout
    /\ slots[2].out = Response(200, GarbageBody)
    /\ result = Err([kind |-> "Transport", cause |-> "timeout",
                     url |-> UserUrl("pg")])

\* Future i of get_authors was answered with a user.
UserAnswer(i) ==
    /\ slots[i].out.net = "ok"
    /\ slots[i].out.body.json = "user"

(***************************************************************************)
(* C13.  get_authors succeeds exactly when every input item has an author  *)
(* and every one of those usernames was answered with a user, no round     *)
(* trip failing; on success the output has the input's length and          *)
(* output[i] is the user answered to the request for the author of         *)
(* items[i], the user of that name; when all items have an author but a    *)
(* user is absent or a fetch fails, the call fails and returns no users.   *)
(***************************************************************************)
C13_StrictAuthors ==
    Done("get_authors") =>
        LET allAuthors == \A i \in 1..Len(args) : args[i].by.some
        IN  /\ result.ok <=>
                  /\ allAuthors
                  /\ Len(slots) = Len(args)
                  /\ \A i \in 1..Len(slots) : UserAnswer(i)
            /\ result.ok =>
                  /\ Len(result.val) = Len(args)
                  /\ \A i \in 1..Len(args) :
                        /\ sent[i] = [idx |-> i, url |-> UserUrl(args[i].by.v)]
                        /\ result.val[i] = slots[i].out.body.user
                        /\ result.val[i].name = args[i].by.v
            /\ (allAuthors /\ \E i \in 1..Len(slots) : ~UserAnswer(i)) =>
                  /\ ~result.ok
                  /\ result.err.kind \in
                        {"UserNotFoundError", "Transport", "Decode"}

\* Every author resolves.
C13_Witness ==
    /\ Done("get_authors")
    /\ args = <<Item5, Item5>>
    /\ order = <<2, 1>>
    /\ \A i \in 1..Len(slots) : Served(UserUrl("pg"), slots[i].out)
    /\ result = Ok(<<UserPg, UserPg>>)

(***************************************************************************)
(* C14.  Idempotence: a resolver called a second time with the same keys,  *)
(* against the same store and with the same outcome of each key's round    *)
(* trip, returns the result of the first call, whatever the order in which *)
(* the round trips of either call completed.                               *)
(***************************************************************************)
C14_Idempotent ==
    (pc = "done" /\ prev.called /\ op = prev.op) => result = prev.result

\* A repeated batch whose requests completed last-first, failing as before.
C14_Witness ==
    /\ Done("get_items")
    /\ prev.called
    /\ prev.op = "get_items"
    /\ args = <<5, 3>>
    /\ order = <<2, 1>>
    /\ slots[1].out = Response(200, GarbageBody)
    /\ slots[2].out = Response(200, NullBody)
    /\ result = prev.result
    /\ ~result.ok

\* Element i of the batch in progress failed: its round trip failed, or, in
\* a strict operation, it was reported absent.
ElementFailed(i) ==
    /\ Issued(i)
    /\ \/ RoundTripFailed(slots[i].out)
       \/ op \in {"get_items", "get_authors"} /\ NullAnswer(slots[i].out)

\* The error of the failed element i.
ElementError(i) ==
    IF RoundTripFailed(slots[i].out) THEN TripError(i)
    ELSE IF op = "get_items" THEN ItemNotFoundError(args[i])
    ELSE UserNotFoundError(args[i].by.v)

(***************************************************************************)
(* C15.  When several elements of one batch fail (get_items,               *)
(* try_get_items, get_authors once the usernames are extracted,            *)
(* try_get_authors), the error returned is that of the failing element     *)
(* with the smallest input index, in every completion order; in get_items  *)
(* a not-found error at a lower index wins over a transport error at a     *)
(* higher one and the other way round.                                     *)
(***************************************************************************)
C15_SmallestIndexError ==
    (pc = "done" /\ op \in BatchOps /\ Len(slots) > 0) =>
        LET failing == {i \in 1..Len(slots) : ElementFailed(i)}
        IN  failing # {} =>
              result = Err(ElementError(
                          CHOOSE i \in failing : \A j \in failing : i <= j))

\* The transport error at the higher index was observed first; the
\* not-found error at the lower index is returned.
C15_Witness ==
    /\ Done("get_items")
    /\ args = <<3, 5>>
    /\ order = <<2, 1>>
    /\ slots[1].out = Response(200, NullBody)
    /\ slots[2].out = Timeout
    /\ result = Err(ItemNotFoundError(3))

(***************************************************************************)
(* C16.  A batch operation returns only after every request it issued has  *)
(* settled: while a request is still in flight the caller has received     *)
(* nothing, also when another request has already failed, and when the     *)
(* call has returned every future has settled.                             *)
(***************************************************************************)
C16_ReturnsAfterAllSettled ==
    (op \in BatchOps /\ pc \in {"running", "done"}) =>
        /\ (\E i \in 1..Len(slots) : slots[i].st \in {"sent", "head"}) =>
              (pc = "running" /\ result = NoResult)
        /\ pc = "done" =>
              /\ \A i \in 1..Len(slots) : slots[i].st = "done"
              /\ Len(order) = Len(slots)

\* One request has failed, its sibling is still in flight (the head of its
\* response has arrived, its body has not), and the call has not returned.
C16_Witness ==
    /\ op = "get_items"
    /\ pc = "running"
    /\ args = <<5, 5>>
    /\ slots[1].st = "done"
    /\ slots[1].out = Timeout
    /\ slots[2].st = "head"
    /\ result = NoResult

(***************************************************************************)
(* C17.  get_items(ids) and try_get_items(ids), one called after the other *)
(* against the same store and the same outcome per key: get_items succeeds *)
(* with [x0..xn] if and only if try_get_items succeeds with                *)
(* [Some(x0)..Some(xn)]; whenever try_get_items fails get_items fails too; *)
(* and get_items fails with ItemNotFoundError(id) only for an id whose     *)
(* lookup answered null, a slot try_get_items reports as None.             *)
(***************************************************************************)
C17_StrictVsTolerantBatch ==
    (pc = "done" /\ prev.called /\ op \in ItemBatchOps /\ op # prev.op) =>
        LET strict == IF op = "get_items" THEN result ELSE prev.result
            tol == IF op = "get_items" THEN prev.result ELSE result
            n == Len(args)
        IN  /\ strict.ok <=>
                  (tol.ok /\ \A i \in 1..n : tol.val[i].some)
            /\ strict.ok =>
                  /\ Len(strict.val) = n
                  /\ tol.val = [i \in 1..n |-> Some(strict.val[i])]
            /\ ~tol.ok => ~strict.ok
            /\ (~strict.ok /\ strict.err.kind = "ItemNotFoundError") =>
                  \E i \in 1..n :
                      /\ args[i] = strict.err.id
                      /\ NullAnswer(slots[i].out)
                      /\ tol.ok => tol.val[i] = None

\* try_get_items returned [Some(item5), None]; get_items over the same
\* input and outcomes fails with the not-found error of the None slot.
C17_Witness ==
    /\ Done("get_items")
    /\ prev.called
    /\ prev.op = "try_get_items"
    /\ args = <<5, 3>>
    /\ prev.result = Ok(<<Some(Item5), None>>)
    /\ result = Err(ItemNotFoundError(3))

(***************************************************************************)
(* C18.  Each of get_items, try_get_items, get_authors and try_get_authors *)
(* called with an empty input succeeds with an empty output and issues no  *)
(* request.                                                                *)
(***************************************************************************)
C18_EmptyBatch ==
    (op \in BatchOps /\ args = <<>> /\ pc \in {"running", "done"}) =>
        /\ sent = <<>>
        /\ slots = <<>>
        /\ pc = "done" => result = Ok(<<>>)

C18_Witness ==
    /\ Done("get_authors")
    /\ args = <<>>
    /\ sent = <<>>
    /\ result = Ok(<<>>)

====
